---- MODULE Spec2Model ----
(***************************************************************************)
(* Weather pipeline: ingestion of raw observations into the bronze table,  *)
(* the two bronze-to-silver transformation variants                        *)
(* (WeatherDataTransformation, SimpleWeatherTransformation) and the daily  *)
(* aggregation of the enriched batch.                                      *)
(*                                                                         *)
(* Units.  Temperatures are whole degrees Celsius, humidity and cloud      *)
(* coverage whole percent, wind speed whole m/s, latitude tenths of a      *)
(* degree (23.5 is 235).  A timestamp is the integer                       *)
(* (month * 31 + day) * 24 + hour.  Weather condition texts are numbered   *)
(* in alphabetical order, which is the order the frame library sorts them  *)
(* in.  An absent value (None / NaN / NaT) is the sentinel NaN.            *)
(***************************************************************************)
EXTENDS Integers, Sequences, FiniteSets, TLC

\* ------------------------------------------------------------------ bounds
\* cities processed by one ingestion run
NumCities == 2
\* an ingestion run starts only while its rows still fit in the bronze table
MaxBronze == 3
\* transformation runs
MaxTransformRuns == 2

\* ------------------------------------------------------- absent values etc.
NaN == 99999

isna(x) == x = NaN

\* comparisons as the frame library evaluates them: any comparison with an
\* absent operand is False
Lt(a, b) == ~isna(a) /\ ~isna(b) /\ a < b
Gt(a, b) == ~isna(a) /\ ~isna(b) /\ a > b
Le(a, b) == ~isna(a) /\ ~isna(b) /\ a <= b

abs(x) == IF isna(x) THEN NaN ELSE IF x < 0 THEN -x ELSE x

fillna_keep(x, d) == x

fillna(x, d) == IF isna(x) THEN d ELSE x

max(a, b) == IF a >= b THEN a ELSE b
min(a, b) == IF a <= b THEN a ELSE b

Range(s) == {s[i] : i \in DOMAIN s}

RECURSIVE SumSeq(_)
SumSeq(s) == IF s = <<>> THEN 0 ELSE s[1] + SumSeq(Tail(s))

RECURSIVE Concat(_)
Concat(ss) == IF ss = <<>> THEN <<>> ELSE ss[1] \o Concat(Tail(ss))

\* --------------------------------------------------------- time encoding
TsOf(month, day, hour) == (month * 31 + day) * 24 + hour
dt_date(ts) == IF isna(ts) THEN NaN ELSE ts \div 24
dt_hour(ts) == IF isna(ts) THEN NaN ELSE ts % 24
dt_month(ts) == IF isna(ts) THEN NaN ELSE (ts \div 24) \div 31

\* ------------------------------------------------------ condition texts
Clear == 1
Rain == 2

\* ------------------------------------------------- raw observations (API)
London == [city_id |-> 1, city_name |-> "London", country_code |-> "GB",
           latitude |-> 515, timestamp |-> TsOf(7, 1, 10),
           weather_main |-> Rain, temperature |-> 21, humidity |-> 50,
           wind_speed |-> 5, clouds |-> 50, pressure |-> 1013]

\* the observations an API call can deliver in the model
RawSamples ==
    { London,
      [London EXCEPT !.temperature = -50, !.timestamp = TsOf(7, 1, 12),
                     !.weather_main = Clear],
      [London EXCEPT !.temperature = 60, !.timestamp = TsOf(7, 1, 14),
                     !.weather_main = Clear],
      [London EXCEPT !.temperature = -51, !.timestamp = TsOf(7, 1, 16)],
      [London EXCEPT !.temperature = 61, !.timestamp = TsOf(7, 2, 9)],
      [London EXCEPT !.temperature = NaN, !.humidity = NaN,
                     !.timestamp = TsOf(7, 1, 18)],
      [city_id |-> 2, city_name |-> "Sydney", country_code |-> "AU",
       latitude |-> -339, timestamp |-> NaN, weather_main |-> Clear,
       temperature |-> 20, humidity |-> 80, wind_speed |-> NaN,
       clouds |-> NaN, pressure |-> 1000],
      [city_id |-> NaN, city_name |-> "Quito", country_code |-> "EC",
       latitude |-> NaN, timestamp |-> TsOf(1, 2, 9), weather_main |-> Rain,
       temperature |-> 10, humidity |-> 20, wind_speed |-> 0,
       clouds |-> 100, pressure |-> 900] }

\* =================================================== feature derivation
\* Both transformation classes define the same helpers; WDT_ is
\* WeatherDataTransformation, SWT_ is SimpleWeatherTransformation.

WDT_get_hemisphere(latitude) ==
    IF Gt(latitude, 0) THEN "NORTHERN"
    ELSE IF Lt(latitude, 0) THEN "SOUTHERN"
    ELSE "EQUATORIAL"

WDT_get_climate_zone_exclusive(latitude) ==
    LET abs_lat == abs(latitude) IN
    IF Lt(abs_lat, 235) THEN "TROPICAL"
    ELSE IF Lt(abs_lat, 350) THEN "SUBTROPICAL"
    ELSE IF Lt(abs_lat, 550) THEN "TEMPERATE"
    ELSE "POLAR"

WDT_get_climate_zone(latitude) ==
    LET abs_lat == abs(latitude) IN
    IF Le(abs_lat, 235) THEN "TROPICAL"
    ELSE IF Le(abs_lat, 350) THEN "SUBTROPICAL"
    ELSE IF Le(abs_lat, 550) THEN "TEMPERATE"
    ELSE "POLAR"

SWT_get_hemisphere(latitude) ==
    IF isna(latitude) THEN "UNKNOWN"
    ELSE IF latitude > 0 THEN "NORTHERN"
    ELSE IF latitude < 0 THEN "SOUTHERN"
    ELSE "EQUATORIAL"

SWT_get_climate_zone(latitude) ==
    IF isna(latitude) THEN "UNKNOWN"
    ELSE LET abs_lat == abs(latitude) IN
         IF abs_lat <= 235 THEN "TROPICAL"
         ELSE IF abs_lat <= 350 THEN "SUBTROPICAL"
         ELSE IF abs_lat <= 550 THEN "TEMPERATE"
         ELSE "POLAR"

calculate_comfort_index_unclamped(temp, humidity, wind_speed) ==
    IF isna(temp) \/ isna(humidity) THEN NaN
    ELSE max(0, 1000 - abs(temp - 21) * 50) - abs(humidity - 50) * 3
         - (IF ~isna(wind_speed) THEN abs(wind_speed - 5) * 20 ELSE 0)

\* comfort index in tenths (0 .. 1000), NaN when undefined; identical in
\* both classes
calculate_comfort_index(temp, humidity, wind_speed) ==
    IF isna(temp) \/ isna(humidity) THEN NaN
    ELSE LET temp_score == max(0, 1000 - abs(temp - 21) * 50)
             humidity_penalty == abs(humidity - 50) * 3
             wind_penalty == IF ~isna(wind_speed)
                             THEN abs(wind_speed - 5) * 20 ELSE 0
             comfort == temp_score - humidity_penalty - wind_penalty
         IN  max(0, min(1000, comfort))

get_season(month) ==
    IF month \in {12, 1, 2} THEN "WINTER"
    ELSE IF month \in {3, 4, 5} THEN "SPRING"
    ELSE IF month \in {6, 7, 8} THEN "SUMMER"
    ELSE "AUTUMN"

WDT_categorize_temperature_inclusive(temp) ==
    IF Le(temp, 0) THEN "FREEZING"
    ELSE IF Le(temp, 10) THEN "COLD"
    ELSE IF Le(temp, 20) THEN "COOL"
    ELSE IF Le(temp, 30) THEN "WARM"
    ELSE "HOT"

WDT_categorize_temperature(temp) ==
    IF Lt(temp, 0) THEN "FREEZING"
    ELSE IF Lt(temp, 10) THEN "COLD"
    ELSE IF Lt(temp, 20) THEN "COOL"
    ELSE IF Lt(temp, 30) THEN "WARM"
    ELSE "HOT"

WDT_categorize_humidity_inclusive(humidity) ==
    IF Le(humidity, 30) THEN "DRY"
    ELSE IF Le(humidity, 60) THEN "COMFORTABLE"
    ELSE IF Le(humidity, 80) THEN "HUMID"
    ELSE "VERY_HUMID"

WDT_categorize_humidity(humidity) ==
    IF Lt(humidity, 30) THEN "DRY"
    ELSE IF Lt(humidity, 60) THEN "COMFORTABLE"
    ELSE IF Lt(humidity, 80) THEN "HUMID"
    ELSE "VERY_HUMID"

SWT_categorize_temperature(temp) ==
    IF isna(temp) THEN "UNKNOWN" ELSE WDT_categorize_temperature(temp)

SWT_categorize_humidity(humidity) ==
    IF isna(humidity) THEN "UNKNOWN" ELSE WDT_categorize_humidity(humidity)

categorize_comfort_exclusive(comfort) ==
    IF isna(comfort) THEN "UNKNOWN"
    ELSE IF comfort > 800 THEN "VERY_COMFORTABLE"
    ELSE IF comfort > 600 THEN "COMFORTABLE"
    ELSE IF comfort > 400 THEN "MODERATE"
    ELSE IF comfort > 200 THEN "UNCOMFORTABLE"
    ELSE "VERY_UNCOMFORTABLE"

\* comfort is in tenths
categorize_comfort(comfort) ==
    IF isna(comfort) THEN "UNKNOWN"
    ELSE IF comfort >= 800 THEN "VERY_COMFORTABLE"
    ELSE IF comfort >= 600 THEN "COMFORTABLE"
    ELSE IF comfort >= 400 THEN "MODERATE"
    ELSE IF comfort >= 200 THEN "UNCOMFORTABLE"
    ELSE "VERY_UNCOMFORTABLE"

\* severity score in thousandths:
\*   |t-21|/40*0.4 + |w-5|/20*0.3 + |h-50|/100*0.2 + (100-c)/100*0.1
\* an absent operand makes the whole sum absent
WEATHER_SEVERITY_SCORE(temp, wind_speed, humidity, clouds) ==
    IF isna(temp) \/ isna(wind_speed) \/ isna(humidity) \/ isna(clouds)
    THEN NaN
    ELSE abs(temp - 21) * 10 + abs(wind_speed - 5) * 15
         + abs(humidity - 50) * 2 + (100 - clouds)

categorize_severity(score) ==
    IF Lt(score, 200) THEN "MILD"
    ELSE IF Lt(score, 400) THEN "MODERATE"
    ELSE IF Lt(score, 600) THEN "SEVERE"
    ELSE "EXTREME"

\* ========================================================= quality gate
\* the mask (TEMPERATURE < -50) | (TEMPERATURE > 60) selects the rows whose
\* flag is overwritten; every other row keeps 'VALID'
DATA_QUALITY_FLAG_inclusive(temperature) ==
    IF Le(temperature, -50) \/ ~Lt(temperature, 60)
    THEN "EXTREME_TEMPERATURE" ELSE "VALID"

DATA_QUALITY_FLAG(temperature) ==
    IF Lt(temperature, -50) \/ Gt(temperature, 60)
    THEN "EXTREME_TEMPERATURE" ELSE "VALID"

\* fillna(0) of WIND_SPEED and CLOUDS / CLOUD_COVERAGE, then the flag
clean(r) ==
    [city_id |-> r.city_id, city_name |-> r.city_name,
     country_code |-> r.country_code, latitude |-> r.latitude,
     timestamp |-> r.timestamp, weather_main |-> r.weather_main,
     temperature |-> r.temperature, humidity |-> r.humidity,
     wind_speed |-> fillna(r.wind_speed, 0), clouds |-> fillna(r.clouds, 0),
     pressure |-> r.pressure,
     data_quality_flag |-> DATA_QUALITY_FLAG(r.temperature)]

filter_valid_unfiltered(df) == df

\* df[df['DATA_QUALITY_FLAG'] == 'VALID']
filter_valid(df) == SelectSeq(df, LAMBDA r : r.data_quality_flag = "VALID")

\* ========================================================== enrichment
\* one valid row through lines 196-290 of WeatherDataTransformation
WDT_enrich(r) ==
    LET comfort == calculate_comfort_index(r.temperature, r.humidity,
                                           r.wind_speed)
        score == WEATHER_SEVERITY_SCORE(r.temperature, r.wind_speed,
                                        r.humidity, r.clouds)
    IN [city_id |-> r.city_id, city_name |-> r.city_name,
        country_code |-> r.country_code, latitude |-> r.latitude,
        timestamp |-> r.timestamp, weather_main |-> r.weather_main,
        temperature |-> r.temperature, humidity |-> r.humidity,
        wind_speed |-> r.wind_speed, clouds |-> r.clouds,
        pressure |-> r.pressure,
        data_quality_flag |-> r.data_quality_flag,
        date |-> dt_date(r.timestamp), hour |-> dt_hour(r.timestamp),
        month |-> dt_month(r.timestamp),
        season |-> get_season(dt_month(r.timestamp)),
        hemisphere |-> WDT_get_hemisphere(r.latitude),
        climate_zone |-> WDT_get_climate_zone(r.latitude),
        temperature_category |-> WDT_categorize_temperature(r.temperature),
        humidity_category |-> WDT_categorize_humidity(r.humidity),
        comfort_index |-> comfort,
        comfort_level |-> categorize_comfort(comfort),
        weather_severity_score |-> score,
        severity_level |-> categorize_severity(score)]

\* one valid row through lines 194-292 of SimpleWeatherTransformation; the
\* silver_columns projection carries no severity columns
SWT_enrich(r) ==
    LET comfort == calculate_comfort_index(r.temperature, r.humidity,
                                           r.wind_speed)
    IN [city_id |-> r.city_id, city_name |-> r.city_name,
        country_code |-> r.country_code, latitude |-> r.latitude,
        timestamp |-> r.timestamp, weather_main |-> r.weather_main,
        temperature |-> r.temperature, humidity |-> r.humidity,
        wind_speed |-> r.wind_speed, clouds |-> r.clouds,
        pressure |-> r.pressure,
        data_quality_flag |-> r.data_quality_flag,
        date |-> dt_date(r.timestamp), hour |-> dt_hour(r.timestamp),
        month |-> dt_month(r.timestamp),
        season |-> get_season(dt_month(r.timestamp)),
        hemisphere |-> SWT_get_hemisphere(r.latitude),
        climate_zone |-> SWT_get_climate_zone(r.latitude),
        temperature_category |-> SWT_categorize_temperature(r.temperature),
        humidity_category |-> SWT_categorize_humidity(r.humidity),
        comfort_index |-> comfort,
        comfort_level |-> categorize_comfort(comfort)]

\* ======================================================= daily aggregation
\* a dict literal, given as its key/value pairs in source order: a repeated
\* key keeps its first position and takes its last value
PyDict(pairs) ==
    LET first == SelectSeq([i \in DOMAIN pairs |-> i],
                     LAMBDA i : \A j \in 1..(i - 1) : pairs[j][1] # pairs[i][1])
        last(k) == CHOOSE i \in DOMAIN pairs :
                     /\ pairs[i][1] = k
                     /\ \A j \in (i + 1)..Len(pairs) : pairs[j][1] # k
    IN [n \in DOMAIN first |->
           <<pairs[first[n]][1], pairs[last(pairs[first[n]][1])][2]>>]

\* the argument of .agg({...}) as written
AggLiteral ==
    << <<"TEMPERATURE", <<"count", "mean", "min", "max", "std">> >>,
       <<"HUMIDITY", <<"mean", "min", "max">> >>,
       <<"WIND_SPEED", <<"mean", "max">> >>,
       <<"PRESSURE", <<"mean">> >>,
       <<"COMFORT_INDEX", <<"mean">> >>,
       <<"WEATHER_MAIN", <<"mode">> >>,
       <<"WEATHER_MAIN", <<"nunique">> >> >>

\* the dict the interpreter builds from it
AggDict == PyDict(AggLiteral)

\* the aggregate columns of the grouped frame, one per (column, function)
AggColumns ==
    Concat([n \in DOMAIN AggDict |->
              [m \in DOMAIN AggDict[n][2] |-> <<AggDict[n][1], AggDict[n][2][m]>>]])

GroupKeys ==
    <<"CITY_ID", "CITY_NAME", "COUNTRY_CODE", "DATE", "CLIMATE_ZONE",
      "HEMISPHERE">>

\* the names assigned to daily_agg.columns
FlatNames ==
    <<"CITY_ID", "CITY_NAME", "COUNTRY_CODE", "DATE", "CLIMATE_ZONE",
      "HEMISPHERE", "HOURLY_READINGS", "AVG_TEMPERATURE", "MIN_TEMPERATURE",
      "MAX_TEMPERATURE", "TEMPERATURE_VARIABILITY", "AVG_HUMIDITY",
      "MIN_HUMIDITY", "MAX_HUMIDITY", "AVG_WIND_SPEED", "MAX_WIND_SPEED",
      "AVG_PRESSURE", "AVG_COMFORT_INDEX", "DOMINANT_WEATHER",
      "WEATHER_CHANGES_COUNT">>

\* the group key of an enriched row
KeyOf(r) ==
    <<r.city_id, r.city_name, r.country_code, r.date, r.climate_zone,
      r.hemisphere>>

\* groupby drops every row with an absent key (dropna=True); the model's
\* text keys are never absent
HasKey(r) == ~isna(r.city_id) /\ ~isna(r.date)

ColumnOf(r, col) ==
    CASE col = "TEMPERATURE" -> r.temperature
      [] col = "HUMIDITY" -> r.humidity
      [] col = "WIND_SPEED" -> r.wind_speed
      [] col = "PRESSURE" -> r.pressure
      [] col = "COMFORT_INDEX" -> r.comfort_index
      [] col = "WEATHER_MAIN" -> r.weather_main

ColumnSeq(rows, col) == [i \in DOMAIN rows |-> ColumnOf(rows[i], col)]

\* Series.mode()[0]: the most frequent present value, the smallest one
\* when several are equally frequent; 'UNKNOWN' (absent here) when none
Mode(vals) ==
    LET n(v) == Cardinality({i \in DOMAIN vals : vals[i] = v})
        top == {v \in Range(vals) : \A w \in Range(vals) : n(w) <= n(v)}
    IN IF vals = <<>> THEN NaN
       ELSE CHOOSE v \in top : \A w \in top : v <= w

\* one aggregate over the present values of a group's column.  mean is in
\* hundredths (truncated); std is reported squared, as the sample variance
\* in hundredths (truncated), absent for fewer than two values
Aggregate(func, column) ==
    LET vals == SelectSeq(column, LAMBDA v : ~isna(v))
        cnt == Len(vals)
        sum == SumSeq(vals)
        sq == SumSeq([i \in DOMAIN vals |-> vals[i] * vals[i]])
    IN CASE func = "count" -> cnt
         [] func = "nunique" -> Cardinality(Range(vals))
         [] func = "mode" -> Mode(vals)
         [] func = "mean" -> IF cnt = 0 THEN NaN ELSE (sum * 100) \div cnt
         [] func = "min" -> IF cnt = 0 THEN NaN
                            ELSE CHOOSE v \in Range(vals) :
                                   \A w \in Range(vals) : v <= w
         [] func = "max" -> IF cnt = 0 THEN NaN
                            ELSE CHOOSE v \in Range(vals) :
                                   \A w \in Range(vals) : v >= w
         [] func = "std" -> IF cnt < 2 THEN NaN
                            ELSE ((cnt * sq - sum * sum) * 100)
                                    \div (cnt * (cnt - 1))

\* groups in key order; the model orders them by (city id, date), texts and
\* derived keys being functions of the city
GroupKeySeq(df) ==
    LET keys == {KeyOf(df[i]) : i \in {j \in DOMAIN df : HasKey(df[j])}}
    IN SortSeq(CHOOSE s \in [1..Cardinality(keys) -> keys] : Range(s) = keys,
               LAMBDA a, b : a[1] < b[1] \/ (a[1] = b[1] /\ a[4] < b[4]))

GroupRows_first(df, key) ==
    SubSeq(SelectSeq(df, LAMBDA r : HasKey(r) /\ KeyOf(r) = key), 1, 1)

GroupRows(df, key) == SelectSeq(df, LAMBDA r : HasKey(r) /\ KeyOf(r) = key)

\* df.groupby(keys).agg(AggDict).reset_index(): per group the key and one
\* value per aggregate column
groupby_agg(df) ==
    LET ks == GroupKeySeq(df)
    IN [g \in DOMAIN ks |->
          [key |-> ks[g],
           vals |-> [c \in DOMAIN AggColumns |->
                       Aggregate(AggColumns[c][2],
                                 ColumnSeq(GroupRows(df, ks[g]),
                                           AggColumns[c][1]))]]]

\* daily_agg.columns = FlatNames raises ValueError (length mismatch) unless
\* the frame has exactly as many columns as names are assigned
ColumnsFit == Len(GroupKeys) + Len(AggColumns) = Len(FlatNames)

\* variability is the squared standard deviation in hundredths
categorize_stability(variability) ==
    IF isna(variability) THEN "UNKNOWN"
    ELSE IF variability < 400 THEN "STABLE"
    ELSE IF variability < 2500 THEN "MODERATE"
    ELSE "VARIABLE"

\* comfort is a mean of tenths, in hundredths
categorize_daily_comfort(comfort) ==
    IF isna(comfort) THEN "UNKNOWN"
    ELSE IF comfort >= 70000 THEN "COMFORTABLE"
    ELSE IF comfort >= 50000 THEN "MODERATE"
    ELSE "UNCOMFORTABLE"

\* a row of the renamed frame with the three derived columns (lines 338-371)
DailySummary(row) ==
    LET at(n) == LET p == CHOOSE i \in DOMAIN FlatNames : FlatNames[i] = n
                 IN IF p <= Len(GroupKeys) THEN row.key[p]
                    ELSE row.vals[p - Len(GroupKeys)]
        mx == at("MAX_TEMPERATURE")
        mn == at("MIN_TEMPERATURE")
    IN [n \in Range(FlatNames) \cup
              {"DAILY_TEMP_RANGE", "TEMPERATURE_STABILITY", "COMFORT_CATEGORY"}
          |-> CASE n = "DAILY_TEMP_RANGE" ->
                     IF isna(mx) \/ isna(mn) THEN NaN ELSE mx - mn
                [] n = "TEMPERATURE_STABILITY" ->
                     categorize_stability(at("TEMPERATURE_VARIABILITY"))
                [] n = "COMFORT_CATEGORY" ->
                     categorize_daily_comfort(at("AVG_COMFORT_INDEX"))
                [] OTHER -> at(n)]

\* =============================================================== state
VARIABLES
    bronze,             \* BRONZE.CURRENT_WEATHER_RAW
    silver,             \* SILVER.CURRENT_WEATHER_CLEANED
    weather_daily,      \* SILVER.WEATHER_DAILY
    pc,                 \* position of the running entry point, or "idle"
    variant,            \* class of the running transformation: "WDT" / "SWT"
    runs,               \* transformation runs started
    df_bronze,          \* the batch read from bronze
    df_valid,           \* the filtered (then enriched) batch
    daily_agg,          \* the grouped frame of create_daily_aggregations
    nrows,              \* rows reported by the silver write
    result,             \* what transform_data returned last
    agg_result,         \* what create_daily_aggregations returned last
    faults,             \* collaborator operations that failed in this run
    wrote,              \* tables this run appended to
    summaries,          \* the daily summaries this run wrote
    city,               \* loop index of ingest_data
    successful_inserts,
    failed_inserts,
    ingest_result,      \* what ingest_data returned last
    all_records,        \* records collected by ingest_weather_data
    bronze_start,       \* rows in bronze when the ingestion run started
    raw,                \* one raw observation taken through the pipeline
    gate_out,           \* its quality flag, "NONE" before the gate
    wdt_out,            \* its WeatherDataTransformation row, if derived
    swt_out,            \* its SimpleWeatherTransformation row, if derived
    comfort_out,        \* calculate_comfort_index on its raw fields
    store_start,        \* silver and daily tables at the last snapshot
    aged,               \* rows of bronze ingested before the read window
    phase,              \* phase of WeatherAnalyticsPipeline.run, or "idle"
    pipeline_result,    \* what WeatherAnalyticsPipeline.run returned last
    pipeline_log        \* status of the last row of UTILS.PIPELINE_LOGS

vars == <<bronze, silver, weather_daily, pc, variant, runs, df_bronze,
          df_valid, daily_agg, nrows, result, agg_result, faults, wrote,
          summaries, city, successful_inserts, failed_inserts, ingest_result,
          all_records, bronze_start, raw, gate_out, wdt_out, swt_out,
          comfort_out,
          store_start, aged, phase, pipeline_result, pipeline_log>>

storeVars == <<bronze, silver, weather_daily>>
runVars == <<variant, runs, df_bronze, df_valid, daily_agg, nrows, result,
             agg_result, faults, wrote, summaries>>
ingestVars == <<city, successful_inserts, failed_inserts, ingest_result>>
batchVars == <<all_records, bronze_start>>
probeVars == <<raw, gate_out, wdt_out, swt_out, comfort_out>>
pipeVars == <<phase, pipeline_result, pipeline_log>>

NoResult == [status |-> "NONE"]
Failed(cause) == [status |-> "FAILED", error |-> cause]
Warning(text) == [status |-> "WARNING", message |-> text]

\* empty tables, nothing run yet
PipelineInit ==
    /\ bronze = <<>>
    /\ silver = <<>>
    /\ weather_daily = <<>>
    /\ pc = "idle"
    /\ variant = "WDT"
    /\ runs = 0
    /\ df_bronze = <<>>
    /\ df_valid = <<>>
    /\ daily_agg = <<>>
    /\ nrows = 0
    /\ result = NoResult
    /\ agg_result = "NOT_CALLED"
    /\ faults = {}
    /\ wrote = {}
    /\ summaries = <<>>
    /\ city = 1
    /\ successful_inserts = 0
    /\ failed_inserts = 0
    /\ ingest_result = NoResult
    /\ all_records = <<>>
    /\ bronze_start = 0
    /\ store_start = <<silver, weather_daily>>
    /\ aged = 0
    /\ phase = "idle"
    /\ pipeline_result = NoResult
    /\ pipeline_log = "NONE"

Init ==
    /\ PipelineInit
    /\ raw = London
    /\ gate_out = "NONE"
    /\ wdt_out = <<>>
    /\ swt_out = <<>>
    /\ comfort_out = <<>>

\* ============================================================ ingestion
\* ingest_data up to the loop: city list, API test, connect, bronze table
IngestStart ==
    /\ UNCHANGED <<all_records, probeVars, aged, store_start, pipeVars>>
    /\ pc = "idle"
    /\ Len(bronze) + NumCities <= MaxBronze
    /\ \E ok \in BOOLEAN :
         IF ok
         THEN /\ pc' = "ingest_loop"
              /\ bronze_start' = Len(bronze)
              /\ city' = 1
              /\ successful_inserts' = 0
              /\ failed_inserts' = 0
              /\ UNCHANGED ingest_result
         ELSE /\ ingest_result' = Failed("ingestion setup")
              /\ UNCHANGED <<pc, city, successful_inserts, failed_inserts,
                             bronze_start>>
    /\ UNCHANGED <<storeVars, runVars>>

\* one iteration of the loop: fetch_weather_data, insert_into_snowflake
IngestCity ==
    /\ UNCHANGED <<batchVars, probeVars, aged, store_start, pipeVars>>
    /\ pc = "ingest_loop"
    /\ city <= NumCities
    /\ \E weather_data \in RawSamples,
          outcome \in {"fetch_failed", "insert_failed", "inserted"} :
         IF outcome = "inserted"
         THEN /\ bronze' = Append(bronze, weather_data)
              /\ successful_inserts' = successful_inserts + 1
              /\ UNCHANGED failed_inserts
         ELSE /\ failed_inserts' = failed_inserts + 1
              /\ UNCHANGED <<bronze, successful_inserts>>
    /\ city' = city + 1
    /\ UNCHANGED <<silver, weather_daily, pc, runVars, ingest_result>>

IngestFinish ==
    /\ UNCHANGED <<batchVars, probeVars, aged, store_start, pipeVars>>
    /\ pc = "ingest_loop"
    /\ city > NumCities
    /\ ingest_result' = [status |-> "SUCCESS",
                         cities_processed |-> NumCities,
                         successful_inserts |-> successful_inserts,
                         failed_inserts |-> failed_inserts]
    /\ pc' = "idle"
    /\ UNCHANGED <<storeVars, runVars, city, successful_inserts,
                   failed_inserts>>

\* ======================================================= transformation
\* ORDER BY TIMESTAMP DESC; an absent timestamp sorts first
read_sql(table) == SortSeq(table, LAMBDA a, b : a.timestamp > b.timestamp)

\* WHERE INGESTION_DATE >= CURRENT_DATE() - 1 (- 7 in SWT): the rows of the
\* table without the old ones, which were ingested before the window
in_window(table, old) == SubSeq(table, old + 1, Len(table))

\* snowflake.connector.connect(**self.sf_params)
transform_data_entry ==
    /\ UNCHANGED <<batchVars, probeVars, aged>>
    /\ pc = "idle"
    /\ runs < MaxTransformRuns
    /\ runs' = runs + 1
    /\ \E v \in {"WDT", "SWT"}, ok \in BOOLEAN :
         /\ variant' = v
         /\ IF ok
            THEN /\ pc' = "connected"
                 /\ result' = NoResult
                 /\ faults' = {}
            ELSE /\ pc' = "idle"
                 /\ result' = Failed("connect")
                 /\ faults' = {"connect"}
    /\ df_bronze' = <<>>
    /\ df_valid' = <<>>
    /\ daily_agg' = <<>>
    /\ nrows' = 0
    /\ agg_result' = "NOT_CALLED"
    /\ wrote' = {}
    /\ summaries' = <<>>
    /\ UNCHANGED <<storeVars, ingestVars>>

Connect ==
    /\ transform_data_entry
    /\ UNCHANGED <<pipeVars, store_start>>

\* create_silver_tables: CREATE TABLE IF NOT EXISTS in WDT, CREATE OR
\* REPLACE TABLE SILVER.CURRENT_WEATHER_CLEANED in SWT
CreateSilverTables ==
    /\ UNCHANGED <<batchVars, probeVars, store_start, aged, pipeVars>>
    /\ pc = "connected"
    /\ \E ok \in BOOLEAN :
         IF ok
         THEN /\ pc' = "tables"
              /\ silver' = IF variant = "SWT" THEN <<>> ELSE silver
              /\ UNCHANGED <<result, faults>>
         ELSE /\ pc' = "idle"
              /\ result' = Failed("create tables")
              /\ faults' = faults \cup {"create tables"}
              /\ UNCHANGED silver
    /\ UNCHANGED <<bronze, weather_daily, variant, runs, df_bronze, df_valid,
                   daily_agg, nrows, agg_result, wrote, summaries, ingestVars>>

\* pd.read_sql and the empty check
ReadBronze ==
    /\ UNCHANGED <<batchVars, probeVars, store_start, aged, pipeVars>>
    /\ pc = "tables"
    /\ \E ok \in BOOLEAN :
         IF ~ok
         THEN /\ pc' = "idle"
              /\ result' = Failed("read bronze")
              /\ faults' = faults \cup {"read bronze"}
              /\ UNCHANGED df_bronze
         ELSE /\ df_bronze' = read_sql(in_window(bronze, aged))
              /\ UNCHANGED faults
              /\ IF df_bronze' = <<>>
                 THEN /\ pc' = "idle"
                      /\ result' = Warning("No data to transform")
                 ELSE /\ pc' = "read"
                      /\ UNCHANGED result
    /\ UNCHANGED <<storeVars, variant, runs, df_valid, daily_agg, nrows,
                   agg_result, wrote, summaries, ingestVars>>

\* cleaning, quality flag, filter and the derived columns.  SWT returns a
\* warning when no row is valid.  WDT goes on; with no valid row the
\* row-wise apply yields a frame, whose assignment to the single column
\* COMFORT_INDEX raises in some releases of the frame library and not in
\* others
Enrich ==
    /\ UNCHANGED <<batchVars, probeVars, store_start, aged, pipeVars>>
    /\ pc = "read"
    /\ LET valid == filter_valid([i \in DOMAIN df_bronze |-> clean(df_bronze[i])]) IN
       IF variant = "SWT"
       THEN IF valid = <<>>
            THEN /\ pc' = "idle"
                 /\ result' = Warning("No valid data")
                 /\ df_valid' = <<>>
            ELSE /\ pc' = "enriched"
                 /\ df_valid' = [i \in DOMAIN valid |-> SWT_enrich(valid[i])]
                 /\ UNCHANGED result
       ELSE \E raises \in BOOLEAN :
              IF valid = <<>> /\ raises
              THEN /\ pc' = "idle"
                   /\ result' = Failed("enrich")
                   /\ df_valid' = <<>>
              ELSE /\ ~raises
                   /\ pc' = "enriched"
                   /\ df_valid' = [i \in DOMAIN valid |-> WDT_enrich(valid[i])]
                   /\ UNCHANGED result
    /\ UNCHANGED <<storeVars, variant, runs, df_bronze, daily_agg, nrows,
                   agg_result, faults, wrote, summaries, ingestVars>>

\* pd_writer / write_pandas of df_valid, appending to the silver table.
\* SWT closes the connection and returns here; WDT returns here only when
\* the write did not succeed
WriteSilver ==
    /\ UNCHANGED <<batchVars, probeVars, store_start, aged, pipeVars>>
    /\ pc = "enriched"
    /\ \E outcome \in {"success", "no success", "raised"} :
         IF outcome = "success"
         THEN /\ silver' = silver \o df_valid
              /\ nrows' = Len(df_valid)
              /\ wrote' = wrote \cup {"silver"}
              /\ UNCHANGED faults
              /\ IF variant = "SWT"
                 THEN /\ pc' = "idle"
                      /\ result' = [status |-> "SUCCESS",
                                    bronze_rows |-> Len(df_bronze),
                                    silver_rows |-> Len(df_valid)]
                 ELSE /\ pc' = "written"
                      /\ UNCHANGED result
         ELSE /\ pc' = "idle"
              /\ result' = Failed(IF outcome = "raised" THEN "write silver"
                                  ELSE "Silver write failed")
              /\ faults' = faults \cup {"write silver"}
              /\ UNCHANGED <<silver, nrows, wrote>>
    /\ UNCHANGED <<bronze, weather_daily, variant, runs, df_bronze, df_valid,
                   daily_agg, agg_result, summaries, ingestVars>>

\* create_daily_aggregations(conn, df_valid) and the return of
\* transform_data after it.  Whatever is raised inside is caught and
\* logged; the method has no return statement
CreateDailyAggregations ==
    /\ UNCHANGED <<batchVars, probeVars, store_start, aged, pipeVars>>
    /\ pc = "written"
    /\ daily_agg' = groupby_agg(df_valid)
    /\ \E outcome \in {"success", "no success", "raised"} :
         IF ~ColumnsFit
         THEN /\ outcome = "raised"
              /\ faults' = faults \cup {"daily aggregation"}
              /\ UNCHANGED <<weather_daily, wrote, summaries>>
         ELSE IF outcome = "success"
         THEN /\ summaries' = [g \in DOMAIN groupby_agg(df_valid) |->
                                 DailySummary(groupby_agg(df_valid)[g])]
              /\ weather_daily' = weather_daily \o summaries'
              /\ wrote' = wrote \cup {"daily"}
              /\ UNCHANGED faults
         ELSE /\ faults' = faults \cup {"write daily"}
              /\ UNCHANGED <<weather_daily, wrote, summaries>>
    /\ agg_result' = "None"
    /\ result' = [status |-> "SUCCESS",
                  records_transformed |-> Len(df_valid),
                  silver_rows_written |-> nrows]
    /\ pc' = "idle"
    /\ UNCHANGED <<bronze, silver, variant, runs, df_bronze, df_valid, nrows,
                   ingestVars>>

Next ==
    \/ IngestStart
    \/ IngestCity
    \/ IngestFinish
    \/ Connect
    \/ CreateSilverTables
    \/ ReadBronze
    \/ Enrich
    \/ WriteSilver
    \/ CreateDailyAggregations

Spec == Init /\ [][Next]_vars

\* ===================================================== the read window
\* time passes between two runs: rows of bronze leave the window of the
\* bronze query (CURRENT_DATE() moves on, INGESTION_DATE does not)
DayPasses ==
    /\ pc = "idle"
    /\ aged < Len(bronze)
    /\ \E n \in (aged + 1)..Len(bronze) : aged' = n
    /\ UNCHANGED <<storeVars, pc, runVars, ingestVars, batchVars, probeVars,
                   pipeVars, store_start>>

\* transform_data is entered; the tables as they are now are kept for
\* comparison
ConnectSnapshot ==
    /\ transform_data_entry
    /\ store_start' = <<silver, weather_daily>>
    /\ UNCHANGED pipeVars

StoreNext ==
    \/ IngestStart
    \/ IngestCity
    \/ IngestFinish
    \/ DayPasses
    \/ ConnectSnapshot
    \/ CreateSilverTables
    \/ ReadBronze
    \/ Enrich
    \/ WriteSilver
    \/ CreateDailyAggregations

StoreSpec == Init /\ [][StoreNext]_vars

\* ==================================== one observation through the pipeline
\* the latitudes, temperatures, humidities, wind speeds, cloud coverages
\* and months a probed observation can carry
Latitudes ==
    {NaN, -900, -551, -550, -351, -350, -236, -235, -1, 0, 1, 235, 236, 350,
     351, 515, 550, 551, 900}
Temperatures ==
    {NaN, -51, -50, -1, 0, 9, 10, 19, 20, 21, 29, 30, 41, 60, 61}
Humidities == {NaN, 0, 29, 30, 50, 59, 60, 79, 80, 100}
WindSpeeds == {NaN, 0, 5, 30}
CloudCoverages == {NaN, 0, 50, 100}
Months == 1..12

ProbeRows ==
    {[London EXCEPT !.latitude = l] : l \in Latitudes}
    \cup {[London EXCEPT !.timestamp = TsOf(m, 1, 10)] : m \in Months}
    \cup {[London EXCEPT !.timestamp = NaN]}
    \cup {[London EXCEPT !.temperature = t, !.humidity = h, !.wind_speed = w,
                         !.clouds = c] :
            t \in Temperatures, h \in Humidities, w \in WindSpeeds,
            c \in CloudCoverages}

RecordInit ==
    /\ PipelineInit
    /\ raw \in ProbeRows
    /\ gate_out = "NONE"
    /\ wdt_out = <<>>
    /\ swt_out = <<>>
    /\ comfort_out = <<>>

\* cleaning and the quality flag of the observation
ProbeGate ==
    /\ gate_out = "NONE"
    /\ gate_out' = clean(raw).data_quality_flag
    /\ UNCHANGED <<storeVars, pc, runVars, ingestVars, batchVars, aged,
                   store_start, pipeVars, raw,
                   wdt_out, swt_out, comfort_out>>

\* the derived columns of WeatherDataTransformation, for a row the filter
\* keeps
ProbeWDT ==
    /\ gate_out = "VALID"
    /\ wdt_out = <<>>
    /\ wdt_out' = <<WDT_enrich(clean(raw))>>
    /\ UNCHANGED <<storeVars, pc, runVars, ingestVars, batchVars, aged,
                   store_start, pipeVars, raw,
                   gate_out, swt_out, comfort_out>>

\* the derived columns of SimpleWeatherTransformation
ProbeSWT ==
    /\ gate_out = "VALID"
    /\ swt_out = <<>>
    /\ swt_out' = <<SWT_enrich(clean(raw))>>
    /\ UNCHANGED <<storeVars, pc, runVars, ingestVars, batchVars, aged,
                   store_start, pipeVars, raw,
                   gate_out, wdt_out, comfort_out>>

\* the method calculate_comfort_index called on the fields as delivered
ProbeComfort ==
    /\ comfort_out = <<>>
    /\ comfort_out' = <<calculate_comfort_index(raw.temperature, raw.humidity,
                                                raw.wind_speed)>>
    /\ UNCHANGED <<storeVars, pc, runVars, ingestVars, batchVars, aged,
                   store_start, pipeVars, raw,
                   gate_out, wdt_out, swt_out>>

RecordNext ==
    \/ ProbeGate
    \/ ProbeWDT
    \/ ProbeSWT
    \/ ProbeComfort

RecordSpec == RecordInit /\ [][RecordNext]_vars

\* ================================ ingestion, batch variant (checkpoint)
\* ingest_weather_data: the loop collects the fetched records, one write of
\* the whole batch follows.  fetch_current_weather returns None for a
\* request error, KeyError or ValueError; anything else it raises (an empty
\* 'weather' list, a null section) leaves ingest_weather_data uncaught
ingest_weather_data_entry ==
    /\ pc = "idle"
    /\ Len(bronze) + NumCities <= MaxBronze
    /\ pc' = "batch_loop"
    /\ all_records' = <<>>
    /\ bronze_start' = Len(bronze)
    /\ city' = 1
    /\ successful_inserts' = 0
    /\ failed_inserts' = 0
    /\ ingest_result' = NoResult
    /\ UNCHANGED <<storeVars, runVars, probeVars, aged, store_start>>

BatchIngestStart ==
    /\ ingest_weather_data_entry
    /\ UNCHANGED pipeVars

BatchIngestCity ==
    /\ pc = "batch_loop"
    /\ city <= NumCities
    /\ \E record \in RawSamples, outcome \in {"record", "None", "raised"} :
         CASE outcome = "record" ->
                /\ all_records' = Append(all_records, record)
                /\ successful_inserts' = successful_inserts + 1
                /\ city' = city + 1
                /\ UNCHANGED <<failed_inserts, pc, ingest_result>>
           [] outcome = "None" ->
                /\ failed_inserts' = failed_inserts + 1
                /\ city' = city + 1
                /\ UNCHANGED <<all_records, successful_inserts, pc,
                               ingest_result>>
           [] outcome = "raised" ->
                /\ pc' = "idle"
                /\ ingest_result' = [status |-> "RAISED"]
                /\ UNCHANGED <<all_records, successful_inserts,
                               failed_inserts, city>>
    /\ UNCHANGED <<storeVars, runVars, bronze_start, probeVars, aged,
                   store_start, pipeVars>>

\* after the loop: nothing fetched, or connect / create table / write_pandas
BatchIngestWrite ==
    /\ pc = "batch_loop"
    /\ city > NumCities
    /\ pc' = "idle"
    /\ IF all_records = <<>>
       THEN /\ ingest_result' = Failed("No data fetched")
            /\ UNCHANGED bronze
       ELSE \E outcome \in {"success", "no success", "raised"} :
              IF outcome = "success"
              THEN /\ bronze' = bronze \o all_records
                   /\ ingest_result' =
                        [status |-> "SUCCESS",
                         records_ingested |-> Len(all_records),
                         successful_cities |-> successful_inserts,
                         failed_cities |-> failed_inserts]
              ELSE /\ ingest_result' =
                        Failed(IF outcome = "raised" THEN "write bronze"
                               ELSE "Snowflake write failed")
                   /\ UNCHANGED bronze
    /\ UNCHANGED <<silver, weather_daily, runVars, city, successful_inserts,
                   failed_inserts, batchVars, probeVars, aged, store_start,
                   pipeVars>>

IngestNext ==
    \/ IngestStart
    \/ IngestCity
    \/ IngestFinish
    \/ BatchIngestStart
    \/ BatchIngestCity
    \/ BatchIngestWrite

IngestSpec == Init /\ [][IngestNext]_vars

\* ================================================= the pipeline wrapper
\* WeatherAnalyticsPipeline.run: ingest_weather_data, transform_data of
\* WeatherDataTransformation, generate_insights, the log row, the result.
\* Each run_* method logs and re-raises what its phase raises and returns
\* what it returns.

\* dict.get(key, 0)
get(d, key) == IF key \in DOMAIN d THEN d[key] ELSE 0

\* what WeatherAnalytics.generate_insights hands back: a result with a
\* status, or an exception
AnalyticsResults ==
    {[status |-> "SUCCESS"], Failed("analytics"), [status |-> "RAISED"]}

\* the except branch of run: one FAILED row, unless writing the row fails
\* (log_pipeline_result swallows that), and the exception goes on
pipeline_raises(logged) ==
    /\ pipeline_result' = [status |-> "RAISED"]
    /\ pipeline_log' = IF logged THEN "FAILED" ELSE pipeline_log
    /\ phase' = "idle"

\* step 1: run_ingestion is entered
run_ingestion ==
    /\ phase = "idle"
    /\ runs < MaxTransformRuns
    /\ ingest_weather_data_entry
    /\ phase' = "ingestion"
    /\ pipeline_result' = NoResult
    /\ UNCHANGED pipeline_log

\* ingest_weather_data raised: run leaves through its except branch
ingestion_raised ==
    /\ phase = "ingestion"
    /\ pc = "idle"
    /\ ingest_result.status = "RAISED"
    /\ \E logged \in BOOLEAN : pipeline_raises(logged)
    /\ UNCHANGED <<storeVars, pc, runVars, ingestVars, batchVars, probeVars,
                   aged, store_start>>

\* step 2: ingestion has returned a result, run_transformation is entered
run_transformation ==
    /\ phase = "ingestion"
    /\ ingest_result.status \in {"SUCCESS", "FAILED"}
    /\ transform_data_entry
    /\ variant' = "WDT"
    /\ phase' = "transformation"
    /\ UNCHANGED <<pipeline_result, pipeline_log, store_start>>

\* step 3 and the rest of run: run_analytics, total_records, the log row
\* and the returned result
run_analytics ==
    /\ phase = "transformation"
    /\ pc = "idle"
    /\ \E analytics_result \in AnalyticsResults, logged \in BOOLEAN :
         IF analytics_result.status = "RAISED"
         THEN pipeline_raises(logged)
         ELSE /\ pipeline_result' =
                   [status |-> "SUCCESS",
                    records_processed |->
                        get(ingest_result, "records_ingested")
                        + get(result, "records_transformed"),
                    ingestion |-> ingest_result,
                    transformation |-> result,
                    analytics |-> analytics_result]
              /\ pipeline_log' = IF logged THEN "SUCCESS" ELSE pipeline_log
              /\ phase' = "idle"
    /\ UNCHANGED <<storeVars, pc, runVars, ingestVars, batchVars, probeVars,
                   aged, store_start>>

PipelineNext ==
    \/ run_ingestion
    \/ BatchIngestCity
    \/ BatchIngestWrite
    \/ ingestion_raised
    \/ run_transformation
    \/ CreateSilverTables
    \/ ReadBronze
    \/ Enrich
    \/ WriteSilver
    \/ CreateDailyAggregations
    \/ run_analytics

PipelineSpec == Init /\ [][PipelineNext]_vars

\* =============================================================== claims
\* a temperature outside [-50, 60]
OutOfRange(t) == t # NaN /\ (t < -50 \/ t > 60)

\* a transformation run has returned
RunEnded == pc = "idle" /\ runs > 0 /\ result # NoResult

\* create_daily_aggregations has been called and has returned in this run
AggregatorCalled == agg_result # "NOT_CALLED"

AggValue(row, col, func) ==
    row.vals[CHOOSE c \in DOMAIN AggColumns : AggColumns[c] = <<col, func>>]

\* C1: the quality gate flags a raw observation EXTREME_TEMPERATURE exactly
\* when its temperature is present and below -50 or above 60, and VALID in
\* every other case (-50, 60 and an absent temperature included); the rows
\* kept by the filter are the rows flagged VALID.
C1_QualityGate ==
    /\ \A i \in DOMAIN df_bronze :
         clean(df_bronze[i]).data_quality_flag =
            IF OutOfRange(df_bronze[i].temperature)
            THEN "EXTREME_TEMPERATURE" ELSE "VALID"
    /\ pc \in {"enriched", "written"} =>
         Len(df_valid) =
            Cardinality({i \in DOMAIN df_bronze :
                           ~OutOfRange(df_bronze[i].temperature)})

C1_Witness ==
    /\ pc = "enriched"
    /\ \E i, j \in DOMAIN df_bronze :
         /\ df_bronze[i].temperature \in {-50, 60, NaN}
         /\ df_bronze[j].temperature \in {-51, 61}
    /\ Len(df_valid) = 1

\* C2: every row of the enriched batch, of the silver table and of the
\* groups the daily aggregator works on is flagged VALID and has no
\* out-of-range temperature.
C2_OnlyValidEnriched ==
    /\ \A r \in Range(df_valid) \cup Range(silver) :
         r.data_quality_flag = "VALID" /\ ~OutOfRange(r.temperature)
    /\ \A g \in DOMAIN daily_agg :
         /\ ~OutOfRange(AggValue(daily_agg[g], "TEMPERATURE", "min"))
         /\ ~OutOfRange(AggValue(daily_agg[g], "TEMPERATURE", "max"))

C2_Witness ==
    /\ RunEnded
    /\ AggregatorCalled
    /\ "silver" \in wrote
    /\ \E i \in DOMAIN df_bronze : OutOfRange(df_bronze[i].temperature)
    /\ silver # <<>>
    /\ daily_agg # <<>>

\* C3: a SUCCESS result of an enrichment pass carries the input count, the
\* valid count and the rejected count (three separate entries), with
\* rejected the number of rows flagged non-VALID.
C3_SuccessCarriesCounts ==
    (RunEnded /\ result.status = "SUCCESS") =>
        \E ki, kv, kr \in DOMAIN result \ {"status"} :
            /\ ki # kv /\ ki # kr /\ kv # kr
            /\ result[ki] = Len(df_bronze)
            /\ result[kv] = Len(df_valid)
            /\ result[kr] = Len(df_bronze) - Len(df_valid)

\* C4: a run in which a collaborator operation failed (connect, table
\* creation, bronze read, silver write, computing or writing the daily
\* summaries) returns status FAILED with the cause, never SUCCESS.
C4_FaultsAreFailed ==
    (RunEnded /\ faults # {}) =>
        result.status = "FAILED" /\ "error" \in DOMAIN result

\* C5: at the end of a run either its enriched rows and the daily summaries
\* derived from them are both in the store, or none of its enriched rows
\* are.
C5_NoPartialOutput ==
    (RunEnded /\ "silver" \in wrote /\ df_valid # <<>>) => "daily" \in wrote

\* C6: called with an empty batch, the enrichment orchestrator and the
\* daily aggregator each return a WARNING result (no nonzero count in it),
\* never FAILED and never an exception.
C6_EmptyBatchIsWarning ==
    /\ (RunEnded /\ faults = {} /\ df_bronze = <<>>) =>
          /\ result.status = "WARNING"
          /\ \A k \in DOMAIN result \ {"status", "message"} : result[k] = 0
    /\ (AggregatorCalled /\ df_valid = <<>>) =>
          /\ agg_result = "WARNING"
          /\ "daily aggregation" \notin faults

\* C7: every entry point returns a structured result whose status is
\* SUCCESS, WARNING or FAILED on every exit path.
C7_StructuredResults ==
    /\ RunEnded => result.status \in {"SUCCESS", "WARNING", "FAILED"}
    /\ ingest_result # NoResult =>
          ingest_result.status \in {"SUCCESS", "WARNING", "FAILED"}
    /\ AggregatorCalled => agg_result \in {"SUCCESS", "WARNING", "FAILED"}

\* the distinct group keys present in a batch
GroupsPresent(df) == {KeyOf(df[i]) : i \in DOMAIN df}

SummaryKey(s) ==
    <<s["CITY_ID"], s["CITY_NAME"], s["COUNTRY_CODE"], s["DATE"],
      s["CLIMATE_ZONE"], s["HEMISPHERE"]>>

\* C8: for a non-empty enriched batch the daily aggregator completes without
\* failure and produces exactly one summary per distinct group of the
\* batch (a failing table write apart).
C8_OneSummaryPerGroup ==
    (AggregatorCalled /\ df_valid # <<>> /\ "write daily" \notin faults) =>
        /\ "daily aggregation" \notin faults
        /\ Len(summaries) = Cardinality(GroupsPresent(df_valid))
        /\ {SummaryKey(summaries[i]) : i \in DOMAIN summaries}
              = GroupsPresent(df_valid)

\* C9: the reading counts of the summaries produced add up to the size of
\* the batch, and each is at least 1.
C9_CountsAddUp ==
    (AggregatorCalled /\ "write daily" \notin faults) =>
        /\ SumSeq([i \in DOMAIN summaries |-> summaries[i]["HOURLY_READINGS"]])
              = Len(df_valid)
        /\ \A i \in DOMAIN summaries : summaries[i]["HOURLY_READINGS"] >= 1

\* the most frequent value, the one met first when several are equally
\* frequent
FirstMostFrequent(vals) ==
    LET n(v) == Cardinality({i \in DOMAIN vals : vals[i] = v})
        first(v) == CHOOSE i \in DOMAIN vals :
                      vals[i] = v /\ \A j \in 1..(i - 1) : vals[j] # v
        top == {v \in Range(vals) : \A w \in Range(vals) : n(w) <= n(v)}
    IN CHOOSE v \in top : \A w \in top : first(v) <= first(w)

\* C10: every group's summary reports the most frequent condition (first
\* met on a tie) as dominant weather, next to the number of distinct
\* conditions; the grouped frame has a column for each.
C10_DominantWeather ==
    (AggregatorCalled /\ "write daily" \notin faults) =>
        /\ <<"WEATHER_MAIN", "mode">> \in Range(AggColumns)
        /\ <<"WEATHER_MAIN", "nunique">> \in Range(AggColumns)
        /\ \A g \in DOMAIN daily_agg :
             \E i \in DOMAIN summaries :
                LET conds == ColumnSeq(GroupRows(df_valid, daily_agg[g].key),
                                       "WEATHER_MAIN")
                IN /\ SummaryKey(summaries[i]) = daily_agg[g].key
                   /\ summaries[i]["DOMINANT_WEATHER"] = FirstMostFrequent(conds)
                   /\ summaries[i]["WEATHER_CHANGES_COUNT"]
                         = Cardinality(Range(conds))

\* the present values of a group's temperatures
GroupTemperatures(key) ==
    SelectSeq(ColumnSeq(GroupRows(df_valid, key), "TEMPERATURE"),
              LAMBDA v : ~isna(v))

\* C11: every group's summary carries the minimum, the maximum and the mean
\* (in hundredths) of the group's temperatures, min <= avg <= max, and a
\* daily range equal to max - min, never negative.
C11_TemperatureSummary ==
    (AggregatorCalled /\ "write daily" \notin faults) =>
        \A g \in DOMAIN daily_agg :
          \E i \in DOMAIN summaries :
            LET s == summaries[i]
                temps == GroupTemperatures(daily_agg[g].key)
            IN /\ SummaryKey(s) = daily_agg[g].key
               /\ temps # <<>> =>
                    /\ s["MIN_TEMPERATURE"] \in Range(temps)
                    /\ s["MAX_TEMPERATURE"] \in Range(temps)
                    /\ \A v \in Range(temps) :
                         s["MIN_TEMPERATURE"] <= v /\ v <= s["MAX_TEMPERATURE"]
                    /\ s["AVG_TEMPERATURE"]
                          = (SumSeq(temps) * 100) \div Len(temps)
                    /\ s["MIN_TEMPERATURE"] * 100 <= s["AVG_TEMPERATURE"]
                    /\ s["AVG_TEMPERATURE"] <= s["MAX_TEMPERATURE"] * 100
                    /\ s["DAILY_TEMP_RANGE"]
                          = s["MAX_TEMPERATURE"] - s["MIN_TEMPERATURE"]
                    /\ s["DAILY_TEMP_RANGE"] >= 0

\* C12: every enriched observation carries a severity score that is a
\* number and is not negative, an absent temperature or humidity included.
C12_SeverityDefined ==
    /\ wdt_out # <<>> =>
         /\ ~isna(wdt_out[1].weather_severity_score)
         /\ wdt_out[1].weather_severity_score >= 0
    /\ swt_out # <<>> => "weather_severity_score" \in DOMAIN swt_out[1]

\* C13: calculate_comfort_index is within 0 .. 100 (0 .. 1000 tenths) for
\* present temperature, humidity and wind speed, and is null exactly when
\* temperature or humidity is absent.
C13_ComfortRange ==
    comfort_out # <<>> =>
        /\ isna(comfort_out[1])
              <=> (isna(raw.temperature) \/ isna(raw.humidity))
        /\ (~isna(raw.temperature) /\ ~isna(raw.humidity)
              /\ ~isna(raw.wind_speed)) =>
                 (comfort_out[1] >= 0 /\ comfort_out[1] <= 1000)

\* a hot, humid and windy observation, whose index is held at 0
C13_Witness ==
    /\ comfort_out = <<0>>
    /\ raw.temperature = 41
    /\ raw.humidity = 100
    /\ raw.wind_speed = 30

\* C14: an absent latitude gives hemisphere and climate zone UNKNOWN, an
\* absent temperature the temperature category UNKNOWN, an absent humidity
\* the humidity category UNKNOWN, in every enriched row.
C14_AbsentIsUnknown ==
    \A out \in {wdt_out, swt_out} :
      out # <<>> =>
        /\ isna(raw.latitude) =>
             out[1].hemisphere = "UNKNOWN" /\ out[1].climate_zone = "UNKNOWN"
        /\ isna(raw.temperature) => out[1].temperature_category = "UNKNOWN"
        /\ isna(raw.humidity) => out[1].humidity_category = "UNKNOWN"

\* the observation with one field replaced
WithWind(r, w) == [r EXCEPT !.wind_speed = w]
WithClouds(r, c) == [r EXCEPT !.clouds = c]

\* C15: an observation with absent wind speed is enriched with wind speed
\* 0 and gets the comfort index and severity score of the same observation
\* with wind speed 0, the wind term being |0 - 5|; an absent cloud coverage
\* is scored as 0.
C15_AbsentAsZero ==
    /\ (wdt_out # <<>> /\ isna(raw.wind_speed)) =>
         LET zero == WDT_enrich(clean(WithWind(raw, 0)))
         IN /\ wdt_out[1].wind_speed = 0
            /\ wdt_out[1].comfort_index = zero.comfort_index
            /\ wdt_out[1].weather_severity_score = zero.weather_severity_score
            /\ ~isna(wdt_out[1].comfort_index) =>
                 wdt_out[1].comfort_index
                    = max(0, max(0, 1000 - 50 * abs(raw.temperature - 21))
                             - 3 * abs(raw.humidity - 50) - 20 * 5)
            /\ ~isna(wdt_out[1].weather_severity_score) =>
                 wdt_out[1].weather_severity_score
                    = 10 * abs(raw.temperature - 21) + 15 * 5
                      + 2 * abs(raw.humidity - 50) + (100 - wdt_out[1].clouds)
    /\ (swt_out # <<>> /\ isna(raw.wind_speed)) =>
         /\ swt_out[1].wind_speed = 0
         /\ swt_out[1].comfort_index
               = SWT_enrich(clean(WithWind(raw, 0))).comfort_index
    /\ (wdt_out # <<>> /\ isna(raw.clouds)) =>
         /\ wdt_out[1].clouds = 0
         /\ wdt_out[1].weather_severity_score
               = WDT_enrich(clean(WithClouds(raw, 0))).weather_severity_score
    /\ (swt_out # <<>> /\ isna(raw.clouds)) => swt_out[1].clouds = 0

\* absent wind and clouds at 21 degrees and 50 percent: comfort 90, severity
\* 0.075 + 0.1
C15_Witness ==
    /\ wdt_out # <<>>
    /\ isna(raw.wind_speed)
    /\ isna(raw.clouds)
    /\ raw.temperature = 21
    /\ raw.humidity = 50
    /\ wdt_out[1].comfort_index = 900
    /\ wdt_out[1].weather_severity_score = 175

\* C17: no step of a transformation run deletes or replaces a row of the
\* enriched store; rows are only appended to it.
C17_AppendOnly ==
    [][\A i \in DOMAIN silver :
          i \in DOMAIN silver' /\ silver'[i] = silver[i]]_vars

\* an ingestion run has gone past its setup and has ended
IngestRunEnded ==
    /\ pc = "idle"
    /\ ingest_result # NoResult
    /\ ingest_result # Failed("ingestion setup")

\* C18: when an ingestion run ends every city has been processed, each one
\* counted as successful or failed, and the raw store has grown by one
\* record per successful city.
C18_FailedCityCounted ==
    IngestRunEnded =>
        /\ city = NumCities + 1
        /\ successful_inserts + failed_inserts = NumCities
        /\ Len(bronze) - bronze_start = successful_inserts

\* C19: hemisphere follows the sign of a present latitude; climate zone is
\* TROPICAL up to 23.5, SUBTROPICAL up to 35, TEMPERATE up to 55 degrees of
\* absolute latitude, bounds included, POLAR beyond; L and -L share a zone.
C19_LatitudeBands ==
    \A out \in {wdt_out, swt_out} :
      (out # <<>> /\ ~isna(raw.latitude)) =>
        LET L == raw.latitude
            a == IF L < 0 THEN -L ELSE L
        IN /\ out[1].hemisphere
                 = (IF L > 0 THEN "NORTHERN"
                    ELSE IF L < 0 THEN "SOUTHERN" ELSE "EQUATORIAL")
           /\ out[1].climate_zone
                 = (CASE a <= 235 -> "TROPICAL"
                      [] a > 235 /\ a <= 350 -> "SUBTROPICAL"
                      [] a > 350 /\ a <= 550 -> "TEMPERATE"
                      [] a > 550 -> "POLAR")
           /\ WDT_get_climate_zone(-L) = WDT_get_climate_zone(L)
           /\ SWT_get_climate_zone(-L) = SWT_get_climate_zone(L)

\* 23.5 degrees south: SOUTHERN and still TROPICAL
C19_Witness ==
    /\ wdt_out # <<>>
    /\ swt_out # <<>>
    /\ raw.latitude = -235
    /\ wdt_out[1].hemisphere = "SOUTHERN"
    /\ wdt_out[1].climate_zone = "TROPICAL"
    /\ swt_out[1].climate_zone = "TROPICAL"

\* C20: a present temperature is FREEZING below 0, COLD from 0, COOL from
\* 10, WARM from 20 and HOT from 30 degrees.
C20_TemperatureBins ==
    \A out \in {wdt_out, swt_out} :
      (out # <<>> /\ ~isna(raw.temperature)) =>
        LET T == raw.temperature
        IN out[1].temperature_category
              = (CASE T < 0 -> "FREEZING"
                   [] T >= 0 /\ T < 10 -> "COLD"
                   [] T >= 10 /\ T < 20 -> "COOL"
                   [] T >= 20 /\ T < 30 -> "WARM"
                   [] T >= 30 -> "HOT")

\* exactly 30 degrees is HOT
C20_Witness ==
    /\ wdt_out # <<>>
    /\ swt_out # <<>>
    /\ raw.temperature = 30
    /\ wdt_out[1].temperature_category = "HOT"
    /\ swt_out[1].temperature_category = "HOT"

\* C21: a present humidity is DRY below 30, COMFORTABLE from 30, HUMID from
\* 60 and VERY_HUMID from 80 percent.
C21_HumidityBins ==
    \A out \in {wdt_out, swt_out} :
      (out # <<>> /\ ~isna(raw.humidity)) =>
        LET H == raw.humidity
        IN out[1].humidity_category
              = (CASE H < 30 -> "DRY"
                   [] H >= 30 /\ H < 60 -> "COMFORTABLE"
                   [] H >= 60 /\ H < 80 -> "HUMID"
                   [] H >= 80 -> "VERY_HUMID")

\* exactly 60 percent is HUMID, in both classes
C21_Witness ==
    /\ wdt_out # <<>>
    /\ swt_out # <<>>
    /\ raw.humidity = 60
    /\ wdt_out[1].humidity_category = "HUMID"
    /\ swt_out[1].humidity_category = "HUMID"

\* C22: the comfort level of an enriched row is the bin of its comfort
\* index (80, 60, 40, 20, in tenths here), and UNKNOWN exactly when the
\* index is null, that is when temperature or humidity is absent.
C22_ComfortLevel ==
    \A out \in {wdt_out, swt_out} :
      out # <<>> =>
        LET index == out[1].comfort_index
            level == out[1].comfort_level
        IN /\ level = "UNKNOWN" <=> isna(index)
           /\ isna(index) <=> (isna(raw.temperature) \/ isna(raw.humidity))
           /\ ~isna(index) =>
                level = (CASE index >= 800 -> "VERY_COMFORTABLE"
                           [] index >= 600 /\ index < 800 -> "COMFORTABLE"
                           [] index >= 400 /\ index < 600 -> "MODERATE"
                           [] index >= 200 /\ index < 400 -> "UNCOMFORTABLE"
                           [] index < 200 -> "VERY_UNCOMFORTABLE")

\* 29 degrees at 50 percent and wind 5: index exactly 60, COMFORTABLE
C22_Witness ==
    /\ wdt_out # <<>>
    /\ swt_out # <<>>
    /\ wdt_out[1].comfort_index = 600
    /\ wdt_out[1].comfort_level = "COMFORTABLE"
    /\ swt_out[1].comfort_level = "COMFORTABLE"

\* C23: the severity level of an enriched row is the bin of its severity
\* score (0.2, 0.4, 0.6, in thousandths here); EXTREME only for a score
\* that is a number of at least 0.6.
C23_SeverityLevel ==
    wdt_out # <<>> =>
        LET score == wdt_out[1].weather_severity_score
            level == wdt_out[1].severity_level
        IN /\ level = "EXTREME" => (~isna(score) /\ score >= 600)
           /\ ~isna(score) =>
                level = (CASE score < 200 -> "MILD"
                           [] score >= 200 /\ score < 400 -> "MODERATE"
                           [] score >= 400 /\ score < 600 -> "SEVERE"
                           [] score >= 600 -> "EXTREME")

\* C24: the season of an enriched row follows the month of its timestamp;
\* a row without timestamp has none of the four named seasons.
C24_Season ==
    \A out \in {wdt_out, swt_out} :
      out # <<>> =>
        LET month == dt_month(raw.timestamp)
            season == out[1].season
        IN /\ season = "WINTER" <=> month \in {12, 1, 2}
           /\ season = "SPRING" <=> month \in {3, 4, 5}
           /\ season = "SUMMER" <=> month \in {6, 7, 8}
           /\ season = "AUTUMN" <=> month \in {9, 10, 11}

\* C25: every group's summary carries the stability category of the
\* group's temperature standard deviation: STABLE below 2, MODERATE below
\* 5, VARIABLE from 5 (variances 4 and 25, in hundredths here), UNKNOWN
\* when there is none, which is when the group has fewer than two
\* temperature readings.
C25_Stability ==
    (AggregatorCalled /\ "write daily" \notin faults) =>
        \A g \in DOMAIN daily_agg :
          \E i \in DOMAIN summaries :
            LET v == AggValue(daily_agg[g], "TEMPERATURE", "std")
                n == Len(GroupTemperatures(daily_agg[g].key))
            IN /\ SummaryKey(summaries[i]) = daily_agg[g].key
               /\ isna(v) <=> n < 2
               /\ summaries[i]["TEMPERATURE_STABILITY"]
                     = (CASE isna(v) -> "UNKNOWN"
                          [] ~isna(v) /\ v < 400 -> "STABLE"
                          [] ~isna(v) /\ v >= 400 /\ v < 2500 -> "MODERATE"
                          [] ~isna(v) /\ v >= 2500 -> "VARIABLE")

\* a run read a batch that was empty or held no VALID row, and has ended
NoValidRead ==
    /\ RunEnded
    /\ faults \cap {"connect", "create tables", "read bronze"} = {}
    /\ filter_valid([i \in DOMAIN df_bronze |-> clean(df_bronze[i])]) = <<>>

\* C26: a transformation run that finds an empty raw batch, or no VALID
\* record in it, leaves the enriched table and the daily table as they
\* were when it started.
C26_EmptyRunIsNoOp ==
    NoValidRead => <<silver, weather_daily>> = store_start

\* the pipeline run has returned SUCCESS, or has logged it
PipelineSucceeded ==
    phase = "idle" /\ pipeline_result.status = "SUCCESS"

\* C28: the wrapper returns and logs SUCCESS only if ingestion,
\* transformation and analytics each returned a result with status
\* SUCCESS.
C28_SuccessNeedsAllPhases ==
    PipelineSucceeded =>
        /\ pipeline_result.ingestion.status = "SUCCESS"
        /\ pipeline_result.transformation.status = "SUCCESS"
        /\ pipeline_result.analytics.status = "SUCCESS"

\* the rows the run has appended to the enriched table
WrittenRows == SubSeq(silver, Len(silver) - nrows + 1, Len(silver))

\* the rows among them that belong to the group of a key and carry a
\* temperature
ReadingsWritten(key) ==
    {i \in DOMAIN WrittenRows :
        /\ HasKey(WrittenRows[i])
        /\ KeyOf(WrittenRows[i]) = key
        /\ ~isna(WrittenRows[i].temperature)}

\* C27: in a run of WeatherDataTransformation nothing is written before
\* the batch is read and enriched; the daily aggregation is called only
\* after the enriched write has succeeded, never after it failed; and the
\* groups it forms are the groups of the rows written, reading for reading.
C27_StepOrder ==
    variant = "WDT" =>
      /\ pc \in {"connected", "tables", "read", "enriched"} =>
           /\ wrote = {}
           /\ nrows = 0
           /\ ~AggregatorCalled
      /\ "silver" \in wrote => WrittenRows = df_valid
      /\ pc = "written" => ("silver" \in wrote /\ ~AggregatorCalled)
      /\ AggregatorCalled =>
           /\ "silver" \in wrote
           /\ "write silver" \notin faults
           /\ {daily_agg[g].key : g \in DOMAIN daily_agg}
                 = {KeyOf(WrittenRows[i]) :
                      i \in {j \in DOMAIN WrittenRows : HasKey(WrittenRows[j])}}
           /\ \A g \in DOMAIN daily_agg :
                AggValue(daily_agg[g], "TEMPERATURE", "count")
                   = Cardinality(ReadingsWritten(daily_agg[g].key))
      /\ "daily" \in wrote => AggregatorCalled
      /\ "write silver" \in faults =>
           /\ ~AggregatorCalled
           /\ daily_agg = <<>>
           /\ summaries = <<>>
           /\ wrote = {}

\* the aggregation has been called on a written batch with two readings of
\* one city and day
C27_Witness ==
    /\ variant = "WDT"
    /\ AggregatorCalled
    /\ "silver" \in wrote
    /\ \E g \in DOMAIN daily_agg :
         Cardinality(ReadingsWritten(daily_agg[g].key)) = 2

\* the specified comfort formula, in tenths: one clamp of the whole
\* expression
SpecifiedComfort(T, H, W) ==
    LET unclamped == (1000 - 50 * (IF T < 21 THEN 21 - T ELSE T - 21))
                     - 3 * (IF H < 50 THEN 50 - H ELSE H - 50)
                     - 20 * (IF W < 5 THEN 5 - W ELSE W - 5)
    IN IF unclamped < 0 THEN 0
       ELSE IF unclamped > 1000 THEN 1000 ELSE unclamped

\* C29: for present temperature, humidity and wind speed,
\* calculate_comfort_index returns the value of the specified formula,
\* which clamps once.
C29_ComfortRefinesFormula ==
    (/\ comfort_out # <<>>
     /\ ~isna(raw.temperature)
     /\ ~isna(raw.humidity)
     /\ ~isna(raw.wind_speed)) =>
        comfort_out[1] = SpecifiedComfort(raw.temperature, raw.humidity,
                                          raw.wind_speed)

\* 60 degrees: the temperature score is negative before its own clamp
C29_Witness ==
    /\ comfort_out = <<0>>
    /\ raw.temperature = 60
    /\ raw.humidity = 50
    /\ raw.wind_speed = 5

\* C30: the two classes give a VALID observation the same season,
\* hemisphere, climate zone, temperature category, humidity category,
\* comfort index and comfort level, absent fields included.
C30_VariantsAgree ==
    (wdt_out # <<>> /\ swt_out # <<>>) =>
        \A f \in {"data_quality_flag", "season", "hemisphere", "climate_zone",
                  "temperature_category", "humidity_category",
                  "comfort_index", "comfort_level"} :
           wdt_out[1][f] = swt_out[1][f]

====
